---- MODULE Spec2Model ----
(***************************************************************************)
(* Model of the question-answering relay: the adaptive provider invoker    *)
(* (app/services/ai_client.py), the /ask handler (app/main.py) and the     *)
(* storage collaborator (app/db.py), and the session state of the web      *)
(* client (qna-frontend/streamlit_app.py).                                 *)
(*                                                                         *)
(* Strings are sequences of one-character strings, so that str.strip() is  *)
(* computed and not assumed.  Python's None is a record of kind "none".    *)
(***************************************************************************)
EXTENDS Integers, Sequences, FiniteSets, TLC

VARIABLES
    _has_new_genai,   \* ai_client.py:14  module flag
    _has_old_genai,   \* ai_client.py:15  module flag
    _client,          \* ai_client.py:16  new-style client handle, or None
    _old_genai,       \* ai_client.py:17  old-style module handle, or None
    imported,         \* whether app.services.ai_client finished importing
    old_importable,   \* whether google.generativeai can be imported and configured
    save_qa,          \* main.py:24  TRUE when bound to db.save_qa
    db,               \* main.py:23  TRUE when bound to db.database
    qa_history,       \* db.py:51    rows of the qa_history table
    threads,          \* the callers that exist in this run
    call,             \* per caller: the frame of ask_gemini_sync
    req,              \* per caller: the frame of the /ask handler
    resp,             \* a raw provider response handed to _extract_text
    extracted,        \* what _extract_text gave for resp
    history,          \* streamlit_app.py:20  st.session_state.history
    last_answer,      \* streamlit_app.py:23  st.session_state.last_answer
    q_input,          \* streamlit_app.py:27  st.session_state.q_input
    notice            \* the st.success / st.error message of the last script run

vars == <<_has_new_genai, _has_old_genai, _client, _old_genai, imported,
          old_importable, save_qa, db, qa_history, threads, call, req, resp,
          extracted, history, last_answer, q_input, notice>>

-----------------------------------------------------------------------------
(* Text *)

WS == " "

\* str.strip(): drop leading and trailing whitespace
RECURSIVE LStrip(_)
LStrip(s) ==
    IF s # <<>> /\ Head(s) = WS THEN LStrip(Tail(s)) ELSE s

RECURSIVE RStrip(_)
RStrip(s) ==
    IF s # <<>> /\ s[Len(s)] = WS THEN RStrip(SubSeq(s, 1, Len(s) - 1)) ELSE s

strip(s) == RStrip(LStrip(s))

\* a Python value read from a "text" slot: None, a str, or a truthy
\* object that is not a str (it has no .strip)
NoneText == [k |-> "none", s |-> <<>>]
Str(s) == [k |-> "str", s |-> s]
ObjText == [k |-> "obj", s |-> <<>>]

\* Python truthiness of such a value
Truthy(v) == v.k = "obj" \/ (v.k = "str" /\ v.s # <<>>)

\* Python's `a or b`
Or(a, b) == IF Truthy(a) THEN a ELSE b

-----------------------------------------------------------------------------
(* Raw provider responses.                                                 *)
(*   output, candidates : what getattr(resp, <name>, None) holds:          *)
(*      "none"         None or attribute missing                           *)
(*      "empty"        an empty list                                       *)
(*      "bad"          a truthy object without len()                       *)
(*      "nocontent"    [x] with x.content None or missing                  *)
(*      "emptycontent" [x] with x.content == []                            *)
(*      "part"         [x] with x.content == [part]; part is a dict (dict  *)
(*                     TRUE) or an object, holding text                    *)
(*   text : getattr(resp, "text", None)                                    *)
(*   str  : str(resp)                                                      *)
(***************************************************************************)
Slot(k) == [k |-> k, dict |-> FALSE, text |-> NoneText]
Part(isDict, t) == [k |-> "part", dict |-> isDict, text |-> t]

Response(o, c, t, s) == [output |-> o, candidates |-> c, text |-> t, str |-> s]

\* the outcome of one try-block of _extract_text, or of the function
Return(s) == [k |-> "return", s |-> s]
Pass == [k |-> "pass", s |-> <<>>]
Raise == [k |-> "raise", s |-> <<>>]

\* ai_client.py:51 / :64
\*   getattr(part, "text", None) or (part.get("text") if isinstance(part, dict) else None)
PartText(part) ==
    Or(IF part.dict THEN NoneText ELSE part.text,
       IF part.dict THEN part.text ELSE NoneText)

\* ai_client.py:47-53 / :59-66   the body shared by the first two try-blocks;
\* an exception inside is caught (except Exception: pass)
TryPath(slot) ==
    CASE slot.k \in {"none", "empty"} -> Pass
      [] slot.k = "bad" -> Pass                       \* len() raises TypeError, caught
      [] slot.k \in {"nocontent", "emptycontent"} -> Pass
      [] OTHER ->
            LET text == PartText(slot) IN
            IF ~Truthy(text) THEN Pass
            ELSE IF text.k = "str" THEN Return(strip(text.s))
            ELSE Pass                                 \* .strip raises AttributeError, caught

\* ai_client.py:71-76
TryText(r) ==
    LET t == r.text IN
    IF ~Truthy(t) THEN Pass
    ELSE IF t.k = "str" THEN Return(strip(t.s))
    ELSE Pass

\* _extract_text probing candidates before output
_extract_text_candidates_first(r) ==
    LET a == TryPath(r.candidates) IN
    IF a.k = "return" THEN a
    ELSE LET b == TryPath(r.output) IN
         IF b.k = "return" THEN b
         ELSE LET c == TryText(r) IN
              IF c.k = "return" THEN c
              ELSE Return(r.str)

\* ai_client.py:44-78
_extract_text(r) ==
    LET a == TryPath(r.output) IN
    IF a.k = "return" THEN a
    ELSE LET b == TryPath(r.candidates) IN
         IF b.k = "return" THEN b
         ELSE LET c == TryText(r) IN
              IF c.k = "return" THEN c
              ELSE Return(r.str)

-----------------------------------------------------------------------------
(* Bounds and program constants *)

MaxRetries == 1        \* a direct caller passes retries in -1..MaxRetries
MaxBackoff == 2        \* a direct caller passes backoff in 1..MaxBackoff (seconds)

DEFAULT_MODEL == "gemini-2.5-flash"
max_output_tokens == 512
temperature == <<2, 10>>          \* 0.2
DefaultRetries == 2
DefaultBackoff == 1

Callers == {1, 2}

SP == <<" ">>
Questions == {<<>>, SP, <<" ", "h">>}

RetriesValues == -1 .. MaxRetries
BackoffValues == 1 .. MaxBackoff

RECURSIVE Pow2(_)
Pow2(n) == IF n <= 0 THEN 1 ELSE 2 * Pow2(n - 1)

-----------------------------------------------------------------------------
(* Provider clients *)

\* a namespace of attributes: `has` are the names hasattr() finds, `callable`
\* those among them that are callable
Namespace(has, callable) == [k |-> "ns", has |-> has, callable |-> callable]
NoneNS == [k |-> "None", has |-> {}, callable |-> {}]

\* inspect.signature(func): not introspectable, or the declared parameter
\* names and whether a **kwargs parameter is declared
Signature(params, varkw) == [introspectable |-> TRUE, params |-> params, varkw |-> varkw]
NoSignature == [introspectable |-> FALSE, params |-> {}, varkw |-> FALSE]

\* a callable inspect.signature() cannot introspect (it raises), with the
\* parameters the callable really declares
Opaque(params, varkw) == [introspectable |-> FALSE, params |-> params, varkw |-> varkw]

\* genai.Client: chat is whether client.chat.completions.create exists,
\* models is client.models, own the client's own attributes, sig the
\* signature of the generation method the client offers
Client(chat, models, own, sig) ==
    [k |-> "Client", chat |-> chat, models |-> models, own |-> own, sig |-> sig]
NoneClient == [k |-> "None", chat |-> FALSE, models |-> NoneNS, own |-> NoneNS, sig |-> NoSignature]

\* google.generativeai: whether ChatCompletion.create / generate_text exist
OldGenai(chat, text) == [k |-> "module", ChatCompletion |-> chat, generate_text |-> text]
NoneOldGenai == [k |-> "None", ChatCompletion |-> FALSE, generate_text |-> FALSE]

Signatures ==
    { Opaque({"prompt", "model"}, FALSE),
      Signature({}, TRUE),
      Signature({"contents", "model", "max_output_tokens"}, FALSE),
      Signature({"prompt", "temperature"}, FALSE),
      Signature({"request"}, FALSE) }

ClientShapes ==
    { Client(TRUE, Namespace({"generate_content"}, {"generate_content"}),
             Namespace({}, {}), Signature({}, TRUE)),
      Client(FALSE, NoneNS, NoneNS, NoSignature),
      Client(FALSE, Namespace({}, {}), Namespace({}, {}), NoSignature),
      Client(FALSE, Namespace({"generate_content", "generate"}, {"generate"}),
             Namespace({}, {}), Signature({"prompt", "temperature"}, FALSE)),
      Client(FALSE, Namespace({"call"}, {}),
             Namespace({"generate_text", "generate"}, {"generate_text", "generate"}),
             Signature({"input"}, FALSE)) }
    \cup { Client(FALSE, Namespace({"generate_content"}, {"generate_content"}),
                  Namespace({}, {}), sg) : sg \in Signatures }

OldShapes == { OldGenai(TRUE, TRUE), OldGenai(FALSE, TRUE), OldGenai(FALSE, FALSE) }

\* what the provider may answer in a run of the invoker
ProviderResponses ==
    { Response(Part(FALSE, Str(<<" ", "a", " ">>)), Slot("none"), NoneText, <<"r">>),
      Response(Slot("none"), Slot("none"), Str(<<" ">>), <<"r">>),
      Response(Slot("none"), Slot("none"), NoneText, <<"r">>),
      Response(Slot("none"), Slot("none"), NoneText, <<>>) }

-----------------------------------------------------------------------------
(* Call shapes *)

candidate_names == <<"generate_content", "generate", "create", "call", "generate_text">>
client_names == <<"generate_text", "generate">>
token_param_names == <<"max_output_tokens", "max_tokens", "max_tokens_to_sample">>
temp_param_names == <<"temperature", "temp">>

Range(s) == { s[i] : i \in DOMAIN s }

\* ai_client.py:182-183
messages_variant(question) ==
    << [role |-> "system", content |-> "You are a concise helpful assistant."],
       [role |-> "user", content |-> question] >>

Variant(name, kwargs) == [name |-> name, kwargs |-> kwargs]

\* the payloads with the contents shape tried before the messages shape
payload_variants_contents_first(question, model) ==
    << Variant(<<"contents">>, ("contents" :> <<question>>) @@ ("model" :> model)),
       Variant(<<"messages">>, ("messages" :> messages_variant(question)) @@ ("model" :> model)),
       Variant(<<"input">>, ("input" :> question) @@ ("model" :> model)),
       Variant(<<"prompt">>, ("prompt" :> question) @@ ("model" :> model)) >>

\* ai_client.py:184-189, in the dict's insertion order
payload_variants(question, model) ==
    << Variant(<<"messages">>, ("messages" :> messages_variant(question)) @@ ("model" :> model)),
       Variant(<<"contents">>, ("contents" :> <<question>>) @@ ("model" :> model)),
       Variant(<<"input">>, ("input" :> question) @@ ("model" :> model)),
       Variant(<<"prompt">>, ("prompt" :> question) @@ ("model" :> model)) >>

\* the copies carrying a token alias and the temperature key together
augmented_variants_both(base) ==
    LET n == Len(token_param_names)
    IN  [ i \in 1 .. (Len(base) * n) |->
            LET b == base[((i - 1) \div n) + 1]
                tk == token_param_names[((i - 1) % n) + 1]
            IN  Variant(b.name \o <<tk>>,
                        (tk :> max_output_tokens) @@ ("temperature" :> temperature)
                        @@ b.kwargs) ]

\* ai_client.py:203-212: for each base payload, one copy per token alias
\* (set to max_output_tokens) and one per temperature alias (set to temperature)
augmented_variants(base) ==
    LET extra == token_param_names \o temp_param_names
        n == Len(extra)
    IN  [ i \in 1 .. (Len(base) * n) |->
            LET b == base[((i - 1) \div n) + 1]
                tk == extra[((i - 1) % n) + 1]
                v == IF tk \in Range(token_param_names) THEN max_output_tokens ELSE temperature
            IN  Variant(b.name \o <<tk>>, (tk :> v) @@ b.kwargs) ]

\* ai_client.py:92-98: the candidate is skipped
Skipped(sig, kwargs) ==
    /\ sig.introspectable
    /\ { k \in DOMAIN kwargs : k \in sig.params } = {}
    /\ ~sig.varkw

\* the call made with the whole payload
call_kwargs_unfiltered(sig, kwargs) == kwargs

\* ai_client.py:103-109
call_kwargs(sig, kwargs) ==
    IF ~sig.introspectable \/ sig.varkw
    THEN kwargs
    ELSE [ k \in { x \in DOMAIN kwargs : x \in sig.params } |-> kwargs[k] ]

\* ai_client.py:89-101: the first candidate at or after `from` that is not
\* skipped, 0 when there is none
NextCandidate(sig, variants, from) ==
    LET ok == { i \in from .. Len(variants) : ~Skipped(sig, variants[i].kwargs) }
    IN  IF ok = {} THEN 0 ELSE CHOOSE i \in ok : \A j \in ok : i <= j

\* the lookup taking the first name that is present, callable or not
RECURSIVE FirstCallable_present(_, _, _)
FirstCallable_present(ns, names, i) ==
    IF i > Len(names) THEN 0
    ELSE IF names[i] \in ns.has THEN i
    ELSE FirstCallable_present(ns, names, i + 1)

\* ai_client.py:159-175: the generation method discovery selects, <<>> when none
RECURSIVE FirstCallable(_, _, _)
FirstCallable(ns, names, i) ==
    IF i > Len(names) THEN 0
    ELSE IF names[i] \in ns.has /\ names[i] \in ns.callable THEN i
    ELSE FirstCallable(ns, names, i + 1)

SelectFunc(client) ==
    LET m == FirstCallable(client.models, candidate_names, 1)
        o == FirstCallable(client.own, client_names, 1)
    IN  IF m # 0 THEN <<"models", candidate_names[m]>>
        ELSE IF o # 0 THEN <<client_names[o]>>
        ELSE <<>>

-----------------------------------------------------------------------------
(* The frame of one ask_gemini_sync call *)

\* an exception: where it was raised, and in which attempt
Err(kind, attempt) == [kind |-> kind, attempt |-> attempt]
NoErr == Err("none", -1)

NoneResponse == Response(Slot("none"), Slot("none"), NoneText, <<>>)

IdleCall ==
    [ pc |-> "idle",          \* idle, entered, loop, calling, sleeping, returned, raised
      question |-> <<>>, retries |-> 0, backoff |-> 0,
      attempt |-> 0,          \* the loop variable of line 135
      path |-> "none",        \* new_chat, new_func, old_chat, old_text
      func_name |-> <<>>,
      phase |-> "none",       \* base, augmented
      pos |-> 0,              \* index of the candidate to invoke next
      log |-> <<>>,           \* the provider calls of the current attempt
      ncalls |-> 0,           \* provider calls made by this invocation
      nraised |-> 0,          \* those that raised something other than TypeError
      sleeps |-> <<>>,        \* the arguments of time.sleep, in order
      last_err |-> NoErr,
      answer |-> <<>>,        \* the returned str
      response |-> NoneResponse,  \* the raw response the answer was taken from
      error |-> "none",       \* the exception the call ended with
      cause |-> NoErr ]       \* its __cause__

IdleReq ==
    [ pc |-> "idle",          \* idle, waiting, saving, done
      question |-> <<>>, q |-> <<>>,
      status |-> 0, answer |-> <<>>, source |-> "none",
      saves |-> 0,            \* calls of save_qa made
      saved |-> "none" ]      \* none, ok, failed

\* the candidates of the phase the frame is in
Variants(f) ==
    IF f.phase = "base"
    THEN payload_variants(f.question, DEFAULT_MODEL)
    ELSE augmented_variants(payload_variants(f.question, DEFAULT_MODEL))

\* the name and keyword arguments of the provider call the frame is about to make
NextCall(f) ==
    CASE f.path = "new_func" ->
            LET v == Variants(f)[f.pos]
            IN  Variant(v.name, call_kwargs(_client.sig, v.kwargs))
      [] f.path \in {"new_chat", "old_chat"} ->        \* ai_client.py:143-151, 227-235
            Variant(<<"chat">>,
                    ("model" :> DEFAULT_MODEL)
                    @@ ("messages" :> messages_variant(f.question))
                    @@ ("temperature" :> temperature)
                    @@ ("max_output_tokens" :> max_output_tokens))
      [] OTHER ->                                       \* ai_client.py:238
            Variant(<<"generate_text">>,
                    ("model" :> DEFAULT_MODEL)
                    @@ ("prompt" :> f.question)
                    @@ ("max_output_tokens" :> max_output_tokens))

Logged(f, outcome) ==
    [ phase |-> f.phase, name |-> NextCall(f).name, kwargs |-> NextCall(f).kwargs,
      outcome |-> outcome ]

\* the backoff computed from the 1-based attempt number
SleepFor_one_based(f) == f.backoff * Pow2(f.attempt + 1)

\* ai_client.py:250  the backoff before the next attempt
SleepFor(f) == f.backoff * Pow2(f.attempt)

\* the handler retrying while attempt <= retries
Fail_one_more(f, e) ==
    IF f.attempt <= f.retries
    THEN [f EXCEPT !.last_err = e, !.pc = "sleeping",
                   !.sleeps = Append(@, f.backoff * Pow2(f.attempt))]
    ELSE [f EXCEPT !.last_err = e, !.pc = "raised",
                   !.error = "GenerationFailed", !.cause = e]

\* the handler keeping the first attempt's exception as last_err
Fail_first_cause(f, e) ==
    LET kept == IF f.last_err = NoErr THEN e ELSE f.last_err IN
    IF f.attempt < f.retries
    THEN [f EXCEPT !.last_err = kept, !.pc = "sleeping",
                   !.sleeps = Append(@, f.backoff * Pow2(f.attempt))]
    ELSE [f EXCEPT !.last_err = kept, !.pc = "raised",
                   !.error = "GenerationFailed", !.cause = kept]

\* ai_client.py:247-255  the retry loop's handler: e is the attempt's exception
Fail(f, e) ==
    IF f.attempt < f.retries
    THEN [f EXCEPT !.last_err = e, !.pc = "sleeping",
                   !.sleeps = Append(@, SleepFor(f))]
    ELSE [f EXCEPT !.last_err = e, !.pc = "raised",
                   !.error = "GenerationFailed", !.cause = e]

\* the negotiation without the augmented phase
AfterTypeError_no_augmented(f) ==
    LET nxt == NextCandidate(_client.sig, Variants(f), f.pos + 1)
    IN  IF nxt # 0 THEN [f EXCEPT !.pos = nxt]
        ELSE [f EXCEPT !.last_err = Err("AllVariantsFailed", f.attempt),
                       !.pc = IF f.attempt < f.retries THEN "sleeping" ELSE "raised",
                       !.sleeps = IF f.attempt < f.retries
                                  THEN Append(@, f.backoff * Pow2(f.attempt)) ELSE @,
                       !.error = IF f.attempt < f.retries THEN @ ELSE "GenerationFailed",
                       !.cause = IF f.attempt < f.retries
                                 THEN @ ELSE Err("AllVariantsFailed", f.attempt)]

\* ai_client.py:196-216  after a TypeError of candidate f.pos: the next accepted
\* candidate of the phase, else the augmented phase, else shape exhaustion
AfterTypeError(f) ==
    LET nxt == NextCandidate(_client.sig, Variants(f), f.pos + 1)
        aug == NextCandidate(_client.sig,
                             augmented_variants(payload_variants(f.question, DEFAULT_MODEL)), 1)
    IN  IF nxt # 0 THEN [f EXCEPT !.pos = nxt]
        ELSE IF f.phase = "base" /\ aug # 0 THEN [f EXCEPT !.phase = "augmented", !.pos = aug]
        ELSE Fail([f EXCEPT !.phase = "augmented"], Err("AllVariantsFailed", f.attempt))

\* discovery that, after a failed attempt, resumes the negotiation at the shape
\* the previous attempt tried last
Discover_resumes(f) ==
    LET g == [f EXCEPT !.log = <<>>, !.path = "none", !.phase = "none", !.pos = 0,
                       !.func_name = <<>>]
    IN  IF _has_new_genai /\ _client.k # "None" THEN
            IF _client.chat THEN [g EXCEPT !.pc = "calling", !.path = "new_chat"]
            ELSE IF _client.models.k = "None" THEN Fail(g, Err("NoModels", f.attempt))
            ELSE IF SelectFunc(_client) = <<>> THEN Fail(g, Err("NoFunction", f.attempt))
            ELSE IF f.attempt > 0 /\ f.pos > 0
            THEN [g EXCEPT !.pc = "calling", !.path = "new_func",
                           !.func_name = SelectFunc(_client),
                           !.phase = f.phase, !.pos = f.pos]
            ELSE AfterTypeError([g EXCEPT !.pc = "calling", !.path = "new_func",
                                          !.func_name = SelectFunc(_client),
                                          !.phase = "base", !.pos = 0])
        ELSE IF _has_old_genai /\ _old_genai.k # "None" THEN
            IF _old_genai.ChatCompletion THEN [g EXCEPT !.pc = "calling", !.path = "old_chat"]
            ELSE IF _old_genai.generate_text THEN [g EXCEPT !.pc = "calling", !.path = "old_text"]
            ELSE Fail(g, Err("NoOldFunction", f.attempt))
        ELSE Fail(g, Err("NoSDK", f.attempt))

\* discovery that does not look for chat.completions.create
Discover_ignores_chat(f) ==
    LET g == [f EXCEPT !.log = <<>>, !.path = "none", !.phase = "none", !.pos = 0,
                       !.func_name = <<>>]
    IN  IF _has_new_genai /\ _client.k # "None" THEN
            IF _client.models.k = "None" THEN Fail(g, Err("NoModels", f.attempt))
            ELSE IF SelectFunc(_client) = <<>> THEN Fail(g, Err("NoFunction", f.attempt))
            ELSE AfterTypeError([g EXCEPT !.pc = "calling", !.path = "new_func",
                                          !.func_name = SelectFunc(_client),
                                          !.phase = "base", !.pos = 0])
        ELSE IF _has_old_genai /\ _old_genai.k # "None" THEN
            IF _old_genai.ChatCompletion THEN [g EXCEPT !.pc = "calling", !.path = "old_chat"]
            ELSE IF _old_genai.generate_text THEN [g EXCEPT !.pc = "calling", !.path = "old_text"]
            ELSE Fail(g, Err("NoOldFunction", f.attempt))
        ELSE Fail(g, Err("NoSDK", f.attempt))

\* ai_client.py:138-245  discovery at the start of an attempt, up to the first
\* provider call
Discover(f) ==
    LET g == [f EXCEPT !.log = <<>>, !.path = "none", !.phase = "none", !.pos = 0,
                       !.func_name = <<>>]
    IN  IF _has_new_genai /\ _client.k # "None" THEN
            IF _client.chat THEN [g EXCEPT !.pc = "calling", !.path = "new_chat"]
            ELSE IF _client.models.k = "None" THEN Fail(g, Err("NoModels", f.attempt))
            ELSE IF SelectFunc(_client) = <<>> THEN Fail(g, Err("NoFunction", f.attempt))
            ELSE AfterTypeError([g EXCEPT !.pc = "calling", !.path = "new_func",
                                          !.func_name = SelectFunc(_client),
                                          !.phase = "base", !.pos = 0])
        ELSE IF _has_old_genai /\ _old_genai.k # "None" THEN
            IF _old_genai.ChatCompletion THEN [g EXCEPT !.pc = "calling", !.path = "old_chat"]
            ELSE IF _old_genai.generate_text THEN [g EXCEPT !.pc = "calling", !.path = "old_text"]
            ELSE Fail(g, Err("NoOldFunction", f.attempt))
        ELSE Fail(g, Err("NoSDK", f.attempt))

Set(c, f) == call' = [call EXCEPT ![c] = f]

Module == <<_has_new_genai, _has_old_genai, _client, _old_genai, imported, old_importable>>
Storage == <<save_qa, db>>
Scratch == <<resp, extracted>>
Session == <<history, last_answer, q_input, notice>>

-----------------------------------------------------------------------------
(* Steps of ask_gemini_sync *)

\* a caller other than the /ask handler calls ask_gemini_sync(question,
\* retries=..., backoff=...); when the module failed to import (ai_client.py:42)
\* the caller's import raises instead
Invoke(c) ==
    /\ call[c].pc = "idle" /\ req[c].pc = "idle"
    /\ \E question \in Questions, retries \in RetriesValues, backoff \in BackoffValues :
          IF imported
          THEN Set(c, [call[c] EXCEPT !.pc = "entered", !.question = question,
                                      !.retries = retries, !.backoff = backoff])
          ELSE Set(c, [call[c] EXCEPT !.pc = "raised", !.question = question,
                                      !.retries = retries, !.backoff = backoff,
                                      !.error = "ImportError"])
    /\ UNCHANGED <<Module, Session, Storage, qa_history, threads, req, Scratch>>

\* the entry check without the .strip()
ask_gemini_sync_no_strip(c) ==
    LET f == call[c] IN
    /\ f.pc = "entered"
    /\ IF f.question = <<>>
       THEN Set(c, [f EXCEPT !.pc = "returned", !.answer = <<>>])
       ELSE IF f.retries + 1 <= 0
       THEN Set(c, [f EXCEPT !.pc = "raised", !.error = "Unreachable"])
       ELSE Set(c, [f EXCEPT !.pc = "loop", !.attempt = 0])
    /\ UNCHANGED <<Module, Session, Storage, qa_history, threads, req, Scratch>>

\* ai_client.py:131-135, 257
ask_gemini_sync(c) ==
    LET f == call[c] IN
    /\ f.pc = "entered"
    /\ IF f.question = <<>> \/ strip(f.question) = <<>>
       THEN Set(c, [f EXCEPT !.pc = "returned", !.answer = <<>>])
       ELSE IF f.retries + 1 <= 0
       THEN Set(c, [f EXCEPT !.pc = "raised", !.error = "Unreachable"])
       ELSE Set(c, [f EXCEPT !.pc = "loop", !.attempt = 0])
    /\ UNCHANGED <<Module, Session, Storage, qa_history, threads, req, Scratch>>

\* an attempt that cannot start while another caller is in time.sleep
Attempt_blocked(c) ==
    /\ call[c].pc = "loop"
    /\ \A d \in threads : call[d].pc # "sleeping"
    /\ Set(c, Discover(call[c]))
    /\ UNCHANGED <<Module, Session, Storage, qa_history, threads, req, Scratch>>

\* ai_client.py:135-195
Attempt(c) ==
    /\ call[c].pc = "loop"
    /\ Set(c, Discover(call[c]))
    /\ UNCHANGED <<Module, Session, Storage, qa_history, threads, req, Scratch>>

\* a successful call whose result is kept while the next candidate is tried
ProviderReturns_goes_on(c) ==
    LET f == call[c] IN
    /\ f.pc = "calling"
    /\ \E r \in ProviderResponses :
          LET g == [f EXCEPT !.log = Append(@, Logged(f, "ok")), !.ncalls = @ + 1]
              t == _extract_text(r)
          IN  IF f.path = "new_func" /\ NextCandidate(_client.sig, Variants(f), f.pos + 1) # 0
              THEN Set(c, [g EXCEPT !.answer = t.s, !.response = r,
                                    !.pos = NextCandidate(_client.sig, Variants(f), f.pos + 1)])
              ELSE Set(c, [g EXCEPT !.pc = "returned", !.answer = t.s, !.response = r])
    /\ UNCHANGED <<Module, Session, Storage, qa_history, threads, req, Scratch>>

\* the provider call returns r: ai_client.py:113-114, 152, 199, 216, 236, 239
ProviderReturns(c) ==
    LET f == call[c] IN
    /\ f.pc = "calling"
    /\ \E r \in ProviderResponses :
          LET g == [f EXCEPT !.log = Append(@, Logged(f, "ok")), !.ncalls = @ + 1]
              t == _extract_text(r)
          IN  IF t.k = "return"
              THEN Set(c, [g EXCEPT !.pc = "returned", !.answer = t.s, !.response = r])
              ELSE Set(c, Fail(g, Err("ExtractError", f.attempt)))
    /\ UNCHANGED <<Module, Session, Storage, qa_history, threads, req, Scratch>>

\* the provider call raises TypeError: ai_client.py:115-116, 200-214; on the
\* chat and old-style paths it is an exception like any other (218-220, 241-243)
ProviderTypeError(c) ==
    LET f == call[c]
        g == [f EXCEPT !.log = Append(@, Logged(f, "TypeError")), !.ncalls = @ + 1]
    IN
    /\ f.pc = "calling"
    /\ IF f.path = "new_func"
       THEN Set(c, AfterTypeError(g))
       ELSE Set(c, Fail(g, Err("ProviderTypeError", f.attempt)))
    /\ UNCHANGED <<Module, Session, Storage, qa_history, threads, req, Scratch>>

\* another exception handled like a TypeError: the next candidate is tried
ProviderRaises_continues(c) ==
    LET f == call[c]
        g == [f EXCEPT !.log = Append(@, Logged(f, "Exception")), !.ncalls = @ + 1,
                       !.nraised = @ + 1]
    IN
    /\ f.pc = "calling"
    /\ IF f.path = "new_func"
       THEN Set(c, AfterTypeError(g))
       ELSE Set(c, Fail(g, Err("ProviderError", f.attempt)))
    /\ UNCHANGED <<Module, Session, Storage, qa_history, threads, req, Scratch>>

\* the provider call raises another exception: ai_client.py:118-120, 218-220
ProviderRaises(c) ==
    LET f == call[c]
        g == [f EXCEPT !.log = Append(@, Logged(f, "Exception")), !.ncalls = @ + 1,
                       !.nraised = @ + 1]
    IN
    /\ f.pc = "calling"
    /\ Set(c, Fail(g, Err("ProviderError", f.attempt)))
    /\ UNCHANGED <<Module, Session, Storage, qa_history, threads, req, Scratch>>

\* the loop going round without counting the attempt
Wake_same_attempt(c) ==
    /\ call[c].pc = "sleeping"
    /\ Set(c, [call[c] EXCEPT !.pc = "loop"])
    /\ UNCHANGED <<Module, Session, Storage, qa_history, threads, req, Scratch>>

\* time.sleep returns: ai_client.py:252-253, 135
Wake(c) ==
    /\ call[c].pc = "sleeping"
    /\ Set(c, [call[c] EXCEPT !.pc = "loop", !.attempt = @ + 1])
    /\ UNCHANGED <<Module, Session, Storage, qa_history, threads, req, Scratch>>

-----------------------------------------------------------------------------
(* The /ask handler and the storage collaborator *)

Respond(r, status, answer) ==
    [r EXCEPT !.pc = "done", !.status = status, !.answer = answer,
              !.source = IF status = 200 THEN "gemini" ELSE "none"]

\* the handler testing the question as received, without the .strip()
ask_no_strip(c) ==
    /\ imported
    /\ req[c].pc = "idle" /\ call[c].pc = "idle"
    /\ \E question \in Questions :
          IF question = <<>>
          THEN /\ req' = [req EXCEPT ![c] =
                            Respond([@ EXCEPT !.question = question], 400, <<>>)]
               /\ UNCHANGED call
          ELSE /\ req' = [req EXCEPT ![c] =
                            [@ EXCEPT !.pc = "waiting", !.question = question,
                                      !.q = question]]
               /\ Set(c, [call[c] EXCEPT !.pc = "entered", !.question = question,
                                         !.retries = DefaultRetries,
                                         !.backoff = DefaultBackoff])
    /\ UNCHANGED <<Module, Session, Storage, qa_history, threads, Scratch>>

\* main.py:111-121  POST /ask arrives; the invoker is started on a worker thread
\* with the default retries and backoff
ask(c) ==
    /\ imported
    /\ req[c].pc = "idle" /\ call[c].pc = "idle"
    /\ \E question \in Questions :
          LET q == strip(question) IN
          IF q = <<>>
          THEN /\ req' = [req EXCEPT ![c] =
                            Respond([@ EXCEPT !.question = question], 400, <<>>)]
               /\ UNCHANGED call
          ELSE /\ req' = [req EXCEPT ![c] =
                            [@ EXCEPT !.pc = "waiting", !.question = question, !.q = q]]
               /\ Set(c, [call[c] EXCEPT !.pc = "entered", !.question = q,
                                         !.retries = DefaultRetries,
                                         !.backoff = DefaultBackoff])
    /\ UNCHANGED <<Module, Session, Storage, qa_history, threads, Scratch>>

\* main.py:122, 128, 137-138  the invoker returned
ask_answered(c) ==
    /\ req[c].pc = "waiting" /\ call[c].pc = "returned"
    /\ IF save_qa /\ db
       THEN req' = [req EXCEPT ![c] = [@ EXCEPT !.pc = "saving", !.answer = call[c].answer,
                                                !.saves = @ + 1]]
       ELSE req' = [req EXCEPT ![c] = Respond(@, 200, call[c].answer)]
    /\ UNCHANGED <<Module, Session, Storage, qa_history, threads, call, Scratch>>

\* main.py:123-126  the invoker raised
ask_failed(c) ==
    /\ req[c].pc = "waiting" /\ call[c].pc = "raised"
    /\ req' = [req EXCEPT ![c] = Respond(@, 502, <<>>)]
    /\ UNCHANGED <<Module, Session, Storage, qa_history, threads, call, Scratch>>

\* the insert given the question as received instead of the trimmed one
save_ok_raw_question(c) ==
    /\ req[c].pc = "saving"
    /\ qa_history' = Append(qa_history,
                            [id |-> Len(qa_history) + 1, question |-> req[c].question,
                             answer |-> req[c].answer])
    /\ req' = [req EXCEPT ![c] = Respond([@ EXCEPT !.saved = "ok"], 200, @.answer)]
    /\ UNCHANGED <<Module, Session, Storage, threads, call, Scratch>>

\* db.py:95-100, main.py:131-132, 137-138  the insert succeeds
save_ok(c) ==
    /\ req[c].pc = "saving"
    /\ qa_history' = Append(qa_history,
                            [id |-> Len(qa_history) + 1, question |-> req[c].q,
                             answer |-> req[c].answer])
    /\ req' = [req EXCEPT ![c] = Respond([@ EXCEPT !.saved = "ok"], 200, @.answer)]
    /\ UNCHANGED <<Module, Session, Storage, threads, call, Scratch>>

\* the insert's exception reaching the framework
save_raises_propagates(c) ==
    /\ req[c].pc = "saving"
    /\ req' = [req EXCEPT ![c] = Respond([@ EXCEPT !.saved = "failed"], 500, <<>>)]
    /\ UNCHANGED <<Module, Session, Storage, qa_history, threads, call, Scratch>>

\* db.py:101-103, main.py:133-138  the insert raises; the handler logs and goes on
save_raises(c) ==
    /\ req[c].pc = "saving"
    /\ req' = [req EXCEPT ![c] = Respond([@ EXCEPT !.saved = "failed"], 200, @.answer)]
    /\ UNCHANGED <<Module, Session, Storage, qa_history, threads, call, Scratch>>

-----------------------------------------------------------------------------
(* The process *)

\* ai_client.py:14-42  module import: the new-style client when google.genai
\* is there, else the old-style module, else ImportError
InitModule ==
    \E new_ok \in BOOLEAN, old_ok \in BOOLEAN :
       /\ _has_new_genai = new_ok
       /\ _client \in (IF new_ok THEN ClientShapes ELSE {NoneClient})
       /\ _has_old_genai = (~new_ok /\ old_ok)
       /\ _old_genai \in (IF ~new_ok /\ old_ok THEN OldShapes ELSE {NoneOldGenai})
       /\ imported = (new_ok \/ old_ok)
       /\ old_importable = old_ok

\* main.py:23-43  the storage collaborator is bound when DB_NAME is set and
\* app.db imports
InitStorage ==
    \E configured \in BOOLEAN :
       /\ save_qa = configured
       /\ db = configured
    
\* streamlit_app.py:17-28  a new browser session
InitSession ==
    /\ history = <<>>
    /\ last_answer = NoneText
    /\ q_input = <<>>
    /\ notice = "none"

InitFrames ==
    /\ InitSession
    /\ qa_history = <<>>
    /\ call = [c \in Callers |-> IdleCall]
    /\ req = [c \in Callers |-> IdleReq]
    /\ resp = NoneResponse
    /\ extracted = Pass

Init ==
    /\ InitModule
    /\ InitStorage
    /\ InitFrames
    /\ threads = {1}

Next ==
    \/ \E c \in threads : Invoke(c)
    \/ \E c \in threads : ask_gemini_sync(c)
    \/ \E c \in threads : Attempt(c)
    \/ \E c \in threads : ProviderReturns(c)
    \/ \E c \in threads : ProviderTypeError(c)
    \/ \E c \in threads : ProviderRaises(c)
    \/ \E c \in threads : Wake(c)
    \/ \E c \in threads : ask(c)
    \/ \E c \in threads : ask_answered(c)
    \/ \E c \in threads : ask_failed(c)
    \/ \E c \in threads : save_ok(c)
    \/ \E c \in threads : save_raises(c)

Spec == Init /\ [][Next]_vars

-----------------------------------------------------------------------------
(* _extract_text on its own *)

SlotValues ==
    { Slot(k) : k \in {"none", "empty", "bad", "nocontent", "emptycontent"} }

Texts == { <<>>, SP, <<" ", "a", " ">>, <<"b">>, <<"c", " ">> }
TextValues == { NoneText, ObjText } \cup { Str(s) : s \in Texts }

PartValues == { Part(d, t) : d \in BOOLEAN, t \in TextValues }

ExtractInputs ==
    { Response(o, c, t, s) :
        o \in SlotValues \cup PartValues, c \in SlotValues \cup PartValues,
        t \in TextValues, s \in { <<>>, <<"r">> } }

InitExtract ==
    /\ _has_new_genai = TRUE /\ _client \in {Client(TRUE, NoneNS, NoneNS, NoSignature)}
    /\ _has_old_genai = FALSE /\ _old_genai = NoneOldGenai
    /\ imported = TRUE /\ old_importable = FALSE
    /\ save_qa = FALSE /\ db = FALSE
    /\ qa_history = <<>>
    /\ call = [c \in Callers |-> IdleCall]
    /\ req = [c \in Callers |-> IdleReq]
    /\ threads = {}
    /\ resp \in ExtractInputs
    /\ extracted = Pass
    /\ InitSession

Extract ==
    /\ extracted = Pass
    /\ extracted' = _extract_text(resp)
    /\ UNCHANGED <<Module, Session, Storage, qa_history, threads, call, req, resp>>

NextExtract == Extract

SpecExtract == InitExtract /\ [][NextExtract]_vars

-----------------------------------------------------------------------------
(* Two callers at once *)

\* the clients bound while two callers run: one with a chat-completion-style
\* method, one whose models.generate declares none of the candidates' keys
ConcShapes ==
    { Client(TRUE, Namespace({"generate_content"}, {"generate_content"}),
             Namespace({}, {}), Signature({}, TRUE)),
      Client(FALSE, Namespace({"generate"}, {"generate"}), Namespace({}, {}),
             Signature({"request"}, FALSE)) }

InitConc ==
    /\ _has_new_genai = TRUE /\ _client \in ConcShapes
    /\ _has_old_genai = FALSE /\ _old_genai = NoneOldGenai
    /\ imported = TRUE /\ old_importable = FALSE
    /\ InitStorage
    /\ InitFrames
    /\ threads = Callers

SpecConc == InitConc /\ [][Next]_vars

-----------------------------------------------------------------------------
(* Method discovery on its own *)

\* a namespace over the given names, each absent, present but not callable,
\* or present and callable
Namespaces(names) ==
    { n \in { Namespace(has, callable) : has \in SUBSET names, callable \in SUBSET names } :
        n.callable \subseteq n.has }

\* clients without a chat-completion-style method
SelectShapes ==
    { Client(FALSE, m, o, Signature({}, TRUE)) :
        m \in Namespaces(Range(candidate_names)) \cup {NoneNS},
        o \in Namespaces({"generate_content", "generate", "generate_text"}) }

\* a caller about to start its first attempt
InitSelect ==
    /\ _has_new_genai = TRUE /\ _client \in SelectShapes
    /\ _has_old_genai = FALSE /\ _old_genai = NoneOldGenai
    /\ imported = TRUE /\ old_importable = FALSE
    /\ save_qa = FALSE /\ db = FALSE
    /\ qa_history = <<>>
    /\ call = [c \in Callers |->
                 IF c = 1 THEN [IdleCall EXCEPT !.pc = "loop", !.question = <<"h">>,
                                                !.retries = 0, !.backoff = DefaultBackoff]
                 ELSE IdleCall]
    /\ req = [c \in Callers |-> IdleReq]
    /\ threads = {1}
    /\ resp = NoneResponse
    /\ extracted = Pass
    /\ InitSession

NextSelect == \E c \in threads : Attempt(c)

SpecSelect == InitSelect /\ [][NextSelect]_vars

-----------------------------------------------------------------------------
(* The web client's session: one step is one run of the Streamlit script *)

MaxHistory == 2        \* successful asks are taken while history is shorter

\* streamlit_app.py:93-98  the four example questions, one letter each
examples == << <<"P">>, <<"R">>, <<"S">>, <<"T">> >>

\* streamlit_app.py:128  readings of datetime.utcnow()
Times == {1, 2}

\* streamlit_app.py:124-139  what requests.post gives: a response with a
\* status, a body that is JSON or not and its "answer", or a RequestException
Reply(k, status, json, answer) == [k |-> k, status |-> status, json |-> json, answer |-> answer]

Replies ==
    { Reply("response", 200, TRUE, a) : a \in { <<" ", "b">>, SP } }
    \cup { Reply("response", 200, FALSE, <<>>),
           Reply("response", 502, TRUE, <<>>),
           Reply("exception", 0, FALSE, <<>>) }

Backend == <<Module, Storage, qa_history, threads, call, req, Scratch>>

\* streamlit_app.py:116-139  the ask block, run with qin in the text area.
\* A 200 whose body is not JSON makes resp.json() raise: a RequestException
\* in recent versions of requests, a ValueError that ends the run in older ones.
RunAsk(qin) ==
    LET q == strip(qin) IN
    /\ q_input' = qin
    /\ IF q = <<>>
       THEN notice' = "Please type a question." /\ UNCHANGED <<history, last_answer>>
       ELSE \E reply \in Replies, now \in Times :
               CASE reply.k = "exception" ->
                       notice' = "Request failed" /\ UNCHANGED <<history, last_answer>>
                 [] reply.k = "response" /\ reply.status # 200 ->
                       notice' = "Backend error" /\ UNCHANGED <<history, last_answer>>
                 [] reply.k = "response" /\ reply.status = 200 /\ ~reply.json ->
                       /\ notice' \in {"Request failed", "exception"}
                       /\ UNCHANGED <<history, last_answer>>
                 [] OTHER ->
                       /\ Len(history) < MaxHistory
                       /\ history' = << [question |-> q, answer |-> strip(reply.answer),
                                         time |-> now] >> \o history
                       /\ last_answer' = Str(strip(reply.answer))
                       /\ notice' = "Answer received"

\* streamlit_app.py:112  the user edits the text area; the run shows no message
q_input_edit ==
    /\ \E text \in Questions : q_input' = text
    /\ notice' = "none"
    /\ UNCHANGED <<history, last_answer, Backend>>

\* streamlit_app.py:113, 116  "Ask Gemini" is clicked
ask_button ==
    /\ RunAsk(q_input)
    /\ UNCHANGED Backend

\* streamlit_app.py:105-109, 116  an example is clicked: it is put in the text
\* area and asked at once
example_button ==
    /\ \E i \in DOMAIN examples : RunAsk(examples[i])
    /\ UNCHANGED Backend

\* a clear that leaves last_answer as it was
clear_history_keeps_answer ==
    /\ history' = <<>>
    /\ notice' = "History cleared"
    /\ UNCHANGED <<last_answer, q_input, Backend>>

\* streamlit_app.py:165-168  "Clear history" is clicked
clear_history ==
    /\ history' = <<>>
    /\ last_answer' = NoneText
    /\ notice' = "History cleared"
    /\ UNCHANGED <<q_input, Backend>>

InitFront ==
    /\ _has_new_genai = TRUE /\ _client \in {Client(TRUE, NoneNS, NoneNS, NoSignature)}
    /\ _has_old_genai = FALSE /\ _old_genai = NoneOldGenai
    /\ imported = TRUE /\ old_importable = FALSE
    /\ save_qa = FALSE /\ db = FALSE
    /\ qa_history = <<>>
    /\ call = [c \in Callers |-> IdleCall]
    /\ req = [c \in Callers |-> IdleReq]
    /\ threads = {}
    /\ resp = NoneResponse
    /\ extracted = Pass
    /\ InitSession

NextFront ==
    \/ q_input_edit
    \/ ask_button
    \/ example_button
    \/ clear_history

SpecFront == InitFront /\ [][NextFront]_vars

-----------------------------------------------------------------------------
(* Properties *)

Blank(question) == \A i \in DOMAIN question : question[i] = WS

\* the frame has passed the entry of ask_gemini_sync
Entered(f) == f.pc \in {"loop", "calling", "sleeping", "returned", "raised"} /\ imported

\* the attempt the frame is in has ended
AttemptEnded(f) == f.pc \in {"sleeping", "returned", "raised"}

\* the bound client offers a provider method that some candidate reaches
HasMethod ==
    \/ /\ _has_new_genai
       /\ \/ _client.chat
          \/ /\ _client.models.k # "None"
             /\ SelectFunc(_client) # <<>>
             /\ \/ ~_client.sig.introspectable
                \/ _client.sig.varkw
                \/ \E kw \in {"messages", "contents", "input", "prompt", "model"}
                             \cup Range(token_param_names) \cup Range(temp_param_names) :
                      kw \in _client.sig.params
    \/ /\ _has_old_genai
       /\ _old_genai.ChatCompletion \/ _old_genai.generate_text

\* C1: for a blank question (empty or whitespace-only) ask_gemini_sync returns
\* "" without raising, with no provider call and no sleep, whatever client is
\* bound and whatever retries and backoff were passed.
C1_BlankReturnsEmpty ==
    \A c \in threads :
       LET f == call[c] IN
       (Entered(f) /\ Blank(f.question)) =>
          /\ f.pc = "returned"
          /\ f.answer = <<>>
          /\ f.error = "none"
          /\ f.ncalls = 0 /\ f.log = <<>>
          /\ f.sleeps = <<>>

C1_Witness ==
    \E c \in threads :
       /\ call[c].pc = "returned" /\ call[c].question = SP
       /\ call[c].retries = MaxRetries /\ call[c].backoff = MaxBackoff
       /\ _has_new_genai /\ ~_client.chat

\* C2: with a non-blank question and a provider method that raises a
\* non-TypeError exception on every call, each attempt makes exactly one
\* provider call, there are never more than retries+1 attempts, no answer is
\* returned, and the call ends with GenerationFailed after exactly retries+1
\* attempts (retries+1 provider calls).
C2_AlwaysRaisingProvider ==
    \A c \in threads :
       LET f == call[c] IN
       (Entered(f) /\ ~Blank(f.question) /\ f.retries >= 0 /\ HasMethod
          /\ f.nraised = f.ncalls) =>
          /\ f.pc # "returned"
          /\ f.attempt <= f.retries
          /\ f.pc \in {"loop", "calling"} => f.ncalls = f.attempt
          /\ AttemptEnded(f) => f.ncalls = f.attempt + 1 /\ Len(f.log) = 1
          /\ f.pc = "raised" =>
                /\ f.error = "GenerationFailed"
                /\ f.attempt = f.retries
                /\ f.ncalls = f.retries + 1

C2_Witness ==
    \E c \in threads :
       /\ call[c].pc = "raised" /\ call[c].error = "GenerationFailed"
       /\ call[c].retries = DefaultRetries
       /\ call[c].path = "new_func"
       /\ call[c].ncalls = 3 /\ call[c].nraised = 3

\* C3: the i-th sleep (0-based) lasts backoff * 2^i; a sleep is made only after
\* a failed attempt that is not the last, so there is one sleep per earlier
\* attempt, none after the final failed attempt and none after a success, and a
\* fully failing call has slept exactly `retries` times.
C3_Backoff ==
    \A c \in threads :
       LET f == call[c] IN
       (Entered(f) /\ f.retries >= 0) =>
          /\ \A i \in DOMAIN f.sleeps : f.sleeps[i] = f.backoff * (2 ^ (i - 1))
          /\ Len(f.sleeps) <= f.retries
          /\ f.pc = "sleeping" => Len(f.sleeps) = f.attempt + 1
          /\ f.pc \in {"loop", "calling", "raised"} => Len(f.sleeps) = f.attempt
          /\ f.pc = "returned" => Len(f.sleeps) = f.attempt
          /\ (f.pc = "raised" /\ f.error = "GenerationFailed") => Len(f.sleeps) = f.retries

C3_Witness ==
    \E c \in threads :
       /\ call[c].pc = "raised" /\ call[c].error = "GenerationFailed"
       /\ call[c].retries = DefaultRetries /\ call[c].backoff = DefaultBackoff
       /\ call[c].sleeps = <<1, 2>>

\* C4: the GenerationFailed raised at exhaustion has as its cause the exception
\* of the last attempt (attempt number retries, 0-based), not an earlier one.
C4_LastCause ==
    \A c \in threads :
       LET f == call[c] IN
       (f.pc = "raised" /\ f.error = "GenerationFailed") =>
          /\ f.cause.kind # "none"
          /\ f.cause.attempt = f.retries
          /\ f.cause = f.last_err

C4_Witness ==
    \E c \in threads :
       /\ call[c].pc = "raised" /\ call[c].error = "GenerationFailed"
       /\ call[c].retries = DefaultRetries
       /\ call[c].cause = Err("ProviderError", 2)
       /\ call[c].ncalls > call[c].nraised

\* the keys of the call shape the stub of C5 accepts
TargetKeys == {"contents", "model", "max_output_tokens"}

\* the bound method can be handed every key of TargetKeys
AcceptsTarget ==
    \/ ~_client.sig.introspectable
    \/ _client.sig.varkw
    \/ TargetKeys \subseteq _client.sig.params

\* every provider call of the attempt behaved as the stub: it returned when
\* called with exactly the keys contents, model, max_output_tokens and raised
\* TypeError otherwise
StubContentsWithTokens(f) ==
    \A i \in DOMAIN f.log :
       f.log[i].outcome = IF DOMAIN f.log[i].kwargs = TargetKeys THEN "ok" ELSE "TypeError"

\* C5: against a method that raises TypeError for the four base payloads and for
\* every augmented payload but contents + max_output_tokens, the first attempt
\* ends in the augmented phase with a call passing contents, model and
\* max_output_tokens, and returns the normalized text of that call's response
\* without a retry or a sleep.
C5_AugmentedVariantFound ==
    \A c \in threads :
       LET f == call[c] IN
       (Entered(f) /\ f.path = "new_func" /\ AcceptsTarget /\ f.attempt = 0
          /\ AttemptEnded(f) /\ StubContentsWithTokens(f)) =>
          /\ f.pc = "returned"
          /\ f.phase = "augmented"
          /\ Len(f.log) = 10
          /\ \A i \in 1 .. 4 : f.log[i].phase = "base"
          /\ LET last == f.log[Len(f.log)] IN
                /\ last.name = <<"contents", "max_output_tokens">>
                /\ DOMAIN last.kwargs = TargetKeys
                /\ last.kwargs["contents"] = <<f.question>>
                /\ last.kwargs["model"] = DEFAULT_MODEL
                /\ last.kwargs["max_output_tokens"] = max_output_tokens
                /\ last.outcome = "ok"
          /\ f.answer = _extract_text(f.response).s
          /\ f.sleeps = <<>> /\ f.last_err = NoErr

C5_Witness ==
    \E c \in threads :
       LET f == call[c] IN
       /\ f.pc = "returned" /\ f.attempt = 0 /\ f.path = "new_func"
       /\ _client.sig = Signature({"contents", "model", "max_output_tokens"}, FALSE)
       /\ Len(f.log) = 10 /\ StubContentsWithTokens(f)
       /\ f.log[10].name = <<"contents", "max_output_tokens">>
       /\ f.answer = <<"a">>

\* C6: in one invocation at most one provider call succeeds; it is the last
\* call made, the invocation has returned with the normalization of that call's
\* response, and no call or sleep follows it; a non-blank question whose first
\* candidate succeeds is answered after exactly one provider call.
C6_SingleSuccess ==
    \A c \in threads :
       LET f == call[c]
           oks == { i \in DOMAIN f.log : f.log[i].outcome = "ok" }
       IN  /\ Cardinality(oks) <= 1
           /\ oks # {} =>
                 /\ oks = {Len(f.log)}
                 /\ f.pc = "returned"
                 /\ f.answer = _extract_text(f.response).s
           /\ (f.pc = "returned" /\ ~Blank(f.question)) => oks # {}
           /\ (f.pc = "returned" /\ ~Blank(f.question) /\ f.attempt = 0 /\ Len(f.log) = 1) =>
                 f.ncalls = 1 /\ f.sleeps = <<>>

C6_Witness ==
    \E c \in threads :
       LET f == call[c] IN
       /\ f.pc = "returned" /\ f.path = "new_func" /\ f.attempt = 0
       /\ Len(f.log) = 1 /\ f.log[1].outcome = "ok" /\ f.log[1].name = <<"messages">>
       /\ f.ncalls = 1 /\ f.answer = <<"a">>

\* C7: when neither client could be constructed at startup, every call with a
\* non-blank question ends by raising the call-time provider-unavailable error
\* (ai_client.py:245), which is not GenerationFailed.
C7_ProviderUnavailable ==
    \A c \in threads :
       LET f == call[c] IN
       (~_has_new_genai /\ ~_has_old_genai /\ f.pc \in {"returned", "raised"}
          /\ ~Blank(f.question)) =>
          /\ f.pc = "raised"
          /\ f.error = "NoSDK"

\* C8: for a non-blank question a returned answer is never the empty string.
C8_NonEmptyAnswer ==
    \A c \in threads :
       LET f == call[c] IN
       (Entered(f) /\ f.pc = "returned" /\ ~Blank(f.question)) => f.answer # <<>>

\* t is s without its leading and trailing whitespace
IsTrimOf(t, s) ==
    /\ t = <<>> \/ (t[1] # WS /\ t[Len(t)] # WS)
    /\ \E i \in 0 .. Len(s) :
          /\ i + Len(t) <= Len(s)
          /\ \A j \in 1 .. Len(s) :
                IF j > i /\ j <= i + Len(t) THEN s[j] = t[j - i] ELSE s[j] = WS

\* the slot holds [x] with x.content == [part] and part's text a non-empty str
Matches(slot) == slot.k = "part" /\ slot.text.k = "str" /\ slot.text.s # <<>>

\* the text _extract_text is to trim for r, <<>> with found FALSE when no path matches
FirstMatch(r) ==
    IF Matches(r.output) THEN [found |-> TRUE, s |-> r.output.text.s]
    ELSE IF Matches(r.candidates) THEN [found |-> TRUE, s |-> r.candidates.text.s]
    ELSE IF r.text.k = "str" /\ r.text.s # <<>> THEN [found |-> TRUE, s |-> r.text.s]
    ELSE [found |-> FALSE, s |-> <<>>]

\* C9: _extract_text never raises; it returns the trimmed text of the first
\* path, in the order output[0].content[0].text, candidates[0].content[0].text,
\* top-level text, that holds a non-empty str, and str(resp) when none does.
C9_ExtractOrder ==
    extracted # Pass =>
       /\ extracted.k = "return"
       /\ IF FirstMatch(resp).found
          THEN IsTrimOf(extracted.s, FirstMatch(resp).s)
          ELSE extracted.s = resp.str

C9_Witness ==
    /\ resp.output = Part(FALSE, Str(<<" ", "a", " ">>))
    /\ resp.candidates = Part(TRUE, Str(<<"b">>))
    /\ resp.text = Str(<<"c", " ">>)
    /\ extracted = Return(<<"a">>)

\* C10: once the invoker has returned an answer, the /ask response is 200 with
\* that answer and source "gemini", whether the save succeeded, raised, or was
\* not made because storage is not bound.
C10_StorageNeverFailsAsk ==
    \A c \in threads :
       (req[c].pc = "done" /\ call[c].pc = "returned") =>
          /\ req[c].status = 200
          /\ req[c].answer = call[c].answer
          /\ req[c].source = "gemini"

C10_Witness ==
    \E c \in threads :
       /\ req[c].pc = "done" /\ req[c].saved = "failed"
       /\ call[c].pc = "returned" /\ call[c].answer = <<"a">>
       /\ req[c].status = 200 /\ req[c].answer = <<"a">>
       /\ qa_history = <<>>

\* C11: a POST /ask whose question is empty or whitespace-only after trimming
\* is answered with status 400, and for that request neither ask_gemini_sync
\* nor save_qa is called.
C11_BlankQuestionIs400 ==
    \A c \in threads :
       (req[c].pc # "idle" /\ Blank(req[c].question)) =>
          /\ req[c].pc = "done" /\ req[c].status = 400
          /\ call[c] = IdleCall
          /\ req[c].saves = 0 /\ req[c].saved = "none"
          /\ \A i \in DOMAIN qa_history : qa_history[i].question # strip(req[c].question)

C11_Witness ==
    \E c \in threads :
       /\ req[c].pc = "done" /\ req[c].question = SP /\ req[c].status = 400
       /\ save_qa /\ db /\ HasMethod

\* the requests whose save_qa call stored a row
Stored == { c \in threads : req[c].saved = "ok" }

\* C12: save_qa is called at most once per request and only after
\* ask_gemini_sync has returned for that request, with the trimmed question and
\* the returned answer; when the invoker fails the request gets status 502 and
\* save_qa is never called for it; every stored row is the row of such a call.
C12_SaveOnlyAfterAnswer ==
    /\ \A c \in threads :
          /\ req[c].saves <= 1
          /\ (req[c].saves = 1) <=> (req[c].pc = "saving" \/ req[c].saved # "none")
          /\ req[c].saves = 1 =>
                /\ call[c].pc = "returned"
                /\ req[c].q = strip(req[c].question)
                /\ req[c].answer = call[c].answer
          /\ (req[c].pc = "done" /\ call[c].pc = "raised") =>
                req[c].status = 502 /\ req[c].saves = 0
    /\ Len(qa_history) = Cardinality(Stored)
    /\ \A i \in DOMAIN qa_history :
          \E c \in Stored : /\ qa_history[i].question = strip(req[c].question)
                            /\ qa_history[i].answer = call[c].answer

C12_Witness ==
    \E c \in threads :
       /\ req[c].pc = "done" /\ req[c].saves = 1 /\ req[c].saved = "ok"
       /\ req[c].question = <<" ", "h">>
       /\ Len(qa_history) = 1
       /\ qa_history[1].question = <<"h">>
       /\ qa_history[1].answer = call[c].answer /\ call[c].answer # <<>>
       /\ call[c].attempt = 1

\* the step of caller c that its position calls for can be taken
CanStep(c) ==
    /\ call[c].pc = "entered" => ENABLED ask_gemini_sync(c)
    /\ call[c].pc = "loop" => ENABLED Attempt(c)
    /\ call[c].pc = "calling" =>
          ENABLED ProviderReturns(c) /\ ENABLED ProviderTypeError(c) /\ ENABLED ProviderRaises(c)
    /\ call[c].pc = "sleeping" => ENABLED Wake(c)

\* caller c's attempt counter, sleeps, last error and result are those of its
\* own attempts
OwnOutcome(c) ==
    LET f == call[c] IN
    (Entered(f) /\ ~Blank(f.question) /\ f.retries >= 0) =>
       /\ f.attempt <= f.retries
       /\ Len(f.sleeps) = f.attempt + (IF f.pc = "sleeping" THEN 1 ELSE 0)
       /\ \A i \in DOMAIN f.sleeps : f.sleeps[i] = f.backoff * Pow2(i - 1)
       /\ f.attempt > 0 => f.last_err # NoErr
       /\ f.last_err # NoErr =>
             f.last_err.attempt = (IF f.pc \in {"sleeping", "raised"}
                                   THEN f.attempt ELSE f.attempt - 1)
       /\ f.pc = "raised" => f.cause = f.last_err /\ f.attempt = f.retries
       /\ f.pc = "returned" => f.answer = _extract_text(f.response).s
       /\ f.ncalls <= f.attempt + 1

\* C13: calls of ask_gemini_sync by several callers at once are independent:
\* while one caller is failing, retrying or sleeping every other caller can
\* take its own steps; a step of one caller leaves every other caller's frame
\* as it was, so each caller's attempt counter, last error and result follow
\* from its own provider responses; and no call writes _client, _old_genai,
\* _has_new_genai or _has_old_genai.
C13_CallersIndependent ==
    /\ [][ /\ UNCHANGED <<_client, _old_genai, _has_new_genai, _has_old_genai>>
           /\ \A c \in threads, d \in threads :
                 (c # d /\ (call'[c] # call[c] \/ req'[c] # req[c])) =>
                    (call'[d] = call[d] /\ req'[d] = req[d]) ]_vars
    /\ [](\A c \in threads : CanStep(c) /\ OwnOutcome(c))

C13_Witness ==
    \E c \in threads, d \in threads :
       /\ c # d
       /\ call[c].pc = "sleeping" /\ call[c].attempt = 1
       /\ call[c].last_err = Err("ProviderError", 1)
       /\ call[d].pc = "returned" /\ call[d].attempt = 0 /\ call[d].ncalls = 1
       /\ call[d].last_err = NoErr /\ call[d].answer # <<>>

\* the attempt whose calls f.log holds: after the sleep the counter has moved on
LoggedAttempt(f) == IF f.pc = "loop" THEN f.attempt - 1 ELSE f.attempt

\* C14: within one attempt, a provider call that raises an error other than a
\* TypeError is the attempt's last call, in the base phase as in the augmented
\* phase: no further candidate is tried, and the error goes to the retry loop,
\* which sleeps and moves to the next attempt, or gives up when the attempt
\* was the last one.
C14_OtherErrorEndsAttempt ==
    \A c \in threads :
       LET f == call[c] IN
       \A i \in DOMAIN f.log :
          f.log[i].outcome = "Exception" =>
             /\ i = Len(f.log)
             /\ f.pc \in {"sleeping", "loop", "raised"}
             /\ f.last_err = Err("ProviderError", LoggedAttempt(f))
             /\ f.pc = "sleeping" =>
                   f.attempt < f.retries /\ Len(f.sleeps) = f.attempt + 1
             /\ f.pc = "loop" =>
                   f.attempt <= f.retries /\ Len(f.sleeps) = f.attempt
             /\ f.pc = "raised" =>
                   /\ f.attempt = f.retries /\ f.cause = f.last_err
                   /\ f.error = "GenerationFailed"

C14_Witness ==
    \E c \in threads :
       LET f == call[c] IN
       /\ f.pc = "loop" /\ f.attempt = 1 /\ f.path = "new_func"
       /\ Len(f.log) = 6
       /\ f.log[6].phase = "augmented" /\ f.log[6].outcome = "Exception"
       /\ f.log[1].phase = "base" /\ f.log[1].outcome = "TypeError"
       /\ f.last_err = Err("ProviderError", 0)

\* C15: when the new-style path raises in an attempt and the old-style SDK
\* is available, the same attempt goes on to the old-style client
\* (ChatCompletion.create, then generate_text): an attempt that ended in a
\* failure ended on the old-style path.
C15_FallsBackToOldStyle ==
    \A c \in threads :
       LET f == call[c] IN
       ( /\ Entered(f) /\ _has_new_genai /\ old_importable
         /\ f.pc \in {"sleeping", "raised"}
         /\ f.last_err # NoErr /\ f.last_err.attempt = f.attempt )
       => f.path \in {"old_chat", "old_text"}

TokenKeys == Range(token_param_names)
TempKeys == Range(temp_param_names)

\* kw is the base payload b with the extra keys ks, token aliases set to the
\* maximum output length and temperature aliases to the temperature
Augments(kw, b, ks) ==
    /\ ks \cap DOMAIN b.kwargs = {}
    /\ DOMAIN kw = DOMAIN b.kwargs \cup ks
    /\ \A k \in DOMAIN b.kwargs : kw[k] = b.kwargs[k]
    /\ \A k \in ks \cap TokenKeys : kw[k] = max_output_tokens
    /\ \A k \in ks \cap TempKeys : kw[k] = temperature

\* the frame is in the augmented phase of the negotiation, at candidate f.pos
InAugmented(f) == f.path = "new_func" /\ f.phase = "augmented" /\ f.pos > 0

\* in this attempt every base candidate that was not skipped has been called
\* and raised TypeError
BaseExhausted(f) ==
    LET base == payload_variants(f.question, DEFAULT_MODEL) IN
    /\ \A i \in DOMAIN base :
          ~Skipped(_client.sig, base[i].kwargs) =>
             \E j \in DOMAIN f.log : f.log[j].phase = "base" /\ f.log[j].name = base[i].name
    /\ \A j \in DOMAIN f.log : f.log[j].phase = "base" => f.log[j].outcome = "TypeError"

\* C16: (as stated) in the augmented phase, entered only after every base
\* candidate failed with a TypeError, each candidate is a base payload with an
\* additional token-limit key set to the maximum output length and an
\* additional temperature key set to the temperature.
C16_TokenAndTemperatureKey ==
    \A c \in threads :
       LET f == call[c] IN
       InAugmented(f) =>
          /\ BaseExhausted(f)
          /\ \E b \in Range(payload_variants(f.question, DEFAULT_MODEL)),
                tk \in TokenKeys, tp \in TempKeys :
                Augments(Variants(f)[f.pos].kwargs, b, {tk, tp})

\* C16: (amended) in the augmented phase, entered only after every base
\* candidate that was not skipped raised a TypeError, each candidate is a base
\* payload with exactly one additional key: a token-limit key set to the
\* maximum output length, or a temperature key set to the temperature.
C16_OneExtraKey ==
    \A c \in threads :
       LET f == call[c] IN
       InAugmented(f) =>
          /\ BaseExhausted(f)
          /\ \E b \in Range(payload_variants(f.question, DEFAULT_MODEL)),
                k \in TokenKeys \cup TempKeys :
                /\ Augments(Variants(f)[f.pos].kwargs, b, {k})
                /\ Variants(f)[f.pos].name = b.name \o <<k>>

C16_Witness ==
    \E c \in threads :
       LET f == call[c] IN
       /\ InAugmented(f) /\ f.pc = "calling" /\ f.pos = 20 /\ Len(f.log) = 23
       /\ DOMAIN Variants(f)[20].kwargs = {"prompt", "model", "temp"}

\* the first of names that is present and callable on ns, <<>> when none is
FirstOf(ns, names) ==
    LET ok == { i \in DOMAIN names : names[i] \in ns.has /\ names[i] \in ns.callable }
    IN  IF ok = {} THEN <<>> ELSE << names[CHOOSE i \in ok : \A j \in ok : i <= j] >>

\* the models namespace searched with the five names, then the client itself
\* searched with own_names
Selection(client, own_names) ==
    IF FirstOf(client.models, candidate_names) # <<>>
    THEN <<"models">> \o FirstOf(client.models, candidate_names)
    ELSE FirstOf(client.own, own_names)

\* the frame has run discovery on a client without a chat-completion-style
\* method that has a models namespace
Discovered(f) ==
    /\ f.pc \in {"calling", "sleeping", "returned", "raised"}
    /\ ~Blank(f.question) /\ f.retries >= 0
    /\ _has_new_genai /\ ~_client.chat /\ _client.models.k # "None"

\* the attempt selected sel, or failed for want of a method when sel is <<>>
Selects(f, sel) ==
    IF sel = <<>>
    THEN /\ f.pc \in {"sleeping", "raised"} /\ f.func_name = <<>>
         /\ f.last_err = Err("NoFunction", f.attempt)
    ELSE f.path = "new_func" /\ f.func_name = sel

\* C17: (as stated) without a chat-completion-style method the selected method
\* is the first of generate_content, generate, create, call, generate_text that
\* is present and callable on the models namespace, else the first name of
\* that same list present and callable on the client itself; a name present
\* but not callable is passed over.
C17_SameListOnClient ==
    \A c \in threads :
       Discovered(call[c]) => Selects(call[c], Selection(_client, candidate_names))

\* C17: (amended) as stated, except that on the client itself the names
\* searched are generate_text, then generate.
C17_GenerateTextThenGenerate ==
    \A c \in threads :
       Discovered(call[c]) =>
          Selects(call[c], Selection(_client, <<"generate_text", "generate">>))

C17_Witness ==
    \E c \in threads :
       /\ Discovered(call[c])
       /\ _client.models.has = {"generate_content", "call"} /\ _client.models.callable = {}
       /\ _client.own.callable = {"generate_content", "generate", "generate_text"}
       /\ call[c].func_name = <<"generate_text">> /\ call[c].pc = "calling"

\* the keys of the candidate payload behind a logged call of the negotiation,
\* named after its base payload and, in the augmented phase, its extra key
KeysOf(e) == {e.name[1], "model"} \cup (IF Len(e.name) = 2 THEN {e.name[2]} ELSE {})

\* the value the candidates carry under key k
ValueOf(f, k) ==
    CASE k = "model" -> DEFAULT_MODEL
      [] k = "messages" -> messages_variant(f.question)
      [] k = "contents" -> <<f.question>>
      [] k \in {"input", "prompt"} -> f.question
      [] k \in TokenKeys -> max_output_tokens
      [] OTHER -> temperature

\* the call e names a declared parameter and passes declared parameters only
OnlyDeclared(f, e) ==
    /\ KeysOf(e) \cap _client.sig.params # {}
    /\ DOMAIN e.kwargs = KeysOf(e) \cap _client.sig.params
    /\ \A k \in DOMAIN e.kwargs : e.kwargs[k] = ValueOf(f, k)

\* C18: (as stated) when the method declares no **kwargs parameter,
\* _call_with_signature never calls it with a candidate none of whose keys is a
\* declared parameter, and every call passes only keys that are declared
\* parameters.
C18_OnlyDeclaredKeys ==
    \A c \in threads :
       LET f == call[c] IN
       (f.path = "new_func" /\ ~_client.sig.varkw) =>
          \A i \in DOMAIN f.log : OnlyDeclared(f, f.log[i])

\* C18: (amended) the same for a method whose signature inspect.signature can
\* read; a method it cannot read is called with every candidate and all of the
\* candidate's keys.
C18_OnlyDeclaredKeysWhenIntrospectable ==
    \A c \in threads :
       LET f == call[c] IN
       (f.path = "new_func" /\ ~_client.sig.varkw) =>
          \A i \in DOMAIN f.log :
             IF _client.sig.introspectable
             THEN OnlyDeclared(f, f.log[i])
             ELSE DOMAIN f.log[i].kwargs = KeysOf(f.log[i])

C18_Witness ==
    \E c \in threads :
       LET f == call[c] IN
       /\ f.path = "new_func" /\ _client.sig = Signature({"prompt", "temperature"}, FALSE)
       /\ Len(f.log) = 3
       /\ f.log[1].name = <<"prompt">> /\ DOMAIN f.log[1].kwargs = {"prompt"}
       /\ f.log[2].name = <<"messages", "temperature">>
       /\ DOMAIN f.log[2].kwargs = {"temperature"}
       /\ f.log[3].name = <<"contents", "temperature">>

\* the base payload shapes the method's signature accepts, in the order of
\* ai_client.py:184-189
AcceptedBase ==
    LET Accepted(n) == \/ ~_client.sig.introspectable
                       \/ _client.sig.varkw
                       \/ {n, "model"} \cap _client.sig.params # {}
    IN  SelectSeq(<<"messages", "contents", "input", "prompt">>, Accepted)

\* the calls of the base phase the attempt has made
BaseLog(f) ==
    LET IsBase(e) == e.phase = "base" IN SelectSeq(f.log, IsBase)

\* C19: within one attempt the accepted base candidates are called in the
\* order messages, contents, input, prompt; a candidate is called only after
\* every accepted candidate before it raised TypeError; the first call that
\* does not raise TypeError is the last call of the negotiation, which ends
\* with that call's result.
C19_BaseOrder ==
    \A c \in threads :
       LET f == call[c]
           bl == BaseLog(f)
       IN
       f.path = "new_func" =>
          /\ Len(bl) <= Len(AcceptedBase)
          /\ \A i \in DOMAIN bl :
                /\ bl[i] = f.log[i]
                /\ bl[i].name = << AcceptedBase[i] >>
                /\ i < Len(bl) => bl[i].outcome = "TypeError"
          /\ (f.pc = "calling" /\ f.phase = "base") =>
                /\ \A i \in DOMAIN bl : bl[i].outcome = "TypeError"
                /\ NextCall(f).name = << AcceptedBase[Len(bl) + 1] >>
          /\ \A i \in DOMAIN f.log :
                f.log[i].outcome # "TypeError" =>
                   /\ i = Len(f.log) /\ f.pc # "calling"
                   /\ f.log[i].outcome = "ok" =>
                         \/ f.pc = "returned" /\ f.answer = _extract_text(f.response).s
                         \/ f.last_err = Err("ExtractError", LoggedAttempt(f))
                   /\ f.log[i].outcome = "Exception" =>
                         f.last_err = Err("ProviderError", LoggedAttempt(f))

C19_Witness ==
    \E c \in threads :
       LET f == call[c] IN
       /\ f.path = "new_func" /\ f.pc = "returned" /\ Len(f.log) = 3
       /\ _client.sig = Signature({"contents", "model", "max_output_tokens"}, FALSE)
       /\ f.log[1].name = <<"messages">> /\ f.log[1].outcome = "TypeError"
       /\ f.log[2].name = <<"contents">> /\ f.log[2].outcome = "TypeError"
       /\ f.log[3].name = <<"input">> /\ f.log[3].outcome = "ok"
       /\ f.answer # <<>>

\* the one call of the chat-completion-style path: model, the system and user
\* messages, temperature and max_output_tokens
ChatCall(f, e) ==
    /\ e.name = <<"chat">> /\ e.phase = "none"
    /\ DOMAIN e.kwargs = {"model", "messages", "temperature", "max_output_tokens"}
    /\ e.kwargs["model"] = DEFAULT_MODEL
    /\ Len(e.kwargs["messages"]) = 2
    /\ e.kwargs["messages"][2].content = f.question
    /\ e.kwargs["temperature"] = temperature
    /\ e.kwargs["max_output_tokens"] = max_output_tokens

\* C20: when the bound new-style client has chat.completions.create, each
\* attempt calls exactly that method once, with the two messages, the
\* temperature and the maximum output length, and no method of the models
\* namespace; a success returns the normalized result, and any failure, a
\* TypeError included, goes straight to the retry loop.
C20_ChatPath ==
    \A c \in threads :
       LET f == call[c] IN
       ( /\ _has_new_genai /\ _client.chat
         /\ f.pc \in {"calling", "sleeping", "returned", "raised"}
         /\ ~Blank(f.question) /\ f.retries >= 0 ) =>
          /\ f.path = "new_chat" /\ f.func_name = <<>> /\ f.phase = "none"
          /\ \A i \in DOMAIN f.log : ChatCall(f, f.log[i])
          /\ f.pc = "calling" => f.log = <<>> /\ f.ncalls = f.attempt
          /\ f.pc # "calling" =>
                /\ Len(f.log) = 1 /\ f.ncalls = f.attempt + 1
                /\ f.log[1].outcome = "ok" =>
                      f.pc = "returned" /\ f.answer = _extract_text(f.response).s
                /\ f.log[1].outcome = "TypeError" =>
                      /\ f.pc \in {"sleeping", "raised"}
                      /\ f.last_err = Err("ProviderTypeError", f.attempt)
                /\ f.log[1].outcome = "Exception" =>
                      /\ f.pc \in {"sleeping", "raised"}
                      /\ f.last_err = Err("ProviderError", f.attempt)

C20_Witness ==
    \E c \in threads :
       LET f == call[c] IN
       /\ _has_new_genai /\ _client.chat /\ "generate_content" \in _client.models.callable
       /\ f.pc = "returned" /\ f.attempt = 1 /\ f.ncalls = 2
       /\ f.last_err = Err("ProviderTypeError", 0)
       /\ Len(f.log) = 1 /\ f.log[1].outcome = "ok" /\ f.answer # <<>>

\* the names of the 4 base candidates followed by the 20 augmented ones, in
\* the order of ai_client.py:184-189 and 203-212
AllNames ==
    LET base == <<"messages", "contents", "input", "prompt">>
        extra == <<"max_output_tokens", "max_tokens", "max_tokens_to_sample",
                   "temperature", "temp">>
    IN  [ i \in 1 .. 4 |-> << base[i] >> ]
        \o [ i \in 1 .. 20 |-> << base[((i - 1) \div 5) + 1], extra[((i - 1) % 5) + 1] >> ]

\* those the method's signature accepts
AllAccepted ==
    LET Accepted(n) == \/ ~_client.sig.introspectable
                       \/ _client.sig.varkw
                       \/ KeysOf([name |-> n]) \cap _client.sig.params # {}
    IN  SelectSeq(AllNames, Accepted)

\* the attempt's calls so far are the first accepted candidates, in order, and
\* all raised TypeError
TriedInOrder(f) ==
    /\ Len(f.log) <= Len(AllAccepted)
    /\ \A i \in DOMAIN f.log :
          f.log[i].name = AllAccepted[i] /\ f.log[i].outcome = "TypeError"

\* C21: when every base and every augmented candidate of an attempt raised
\* TypeError the attempt ends with the shape-exhaustion error, which counts as
\* one failed attempt of the retry loop (the backoff sleep follows when
\* attempts remain, the final error when none does); the shape-exhaustion
\* error arises in no other way; and every attempt, the one after an
\* exhaustion included, starts the negotiation at the first accepted base
\* candidate and goes through the candidates in order.
C21_ShapeExhaustion ==
    \A c \in threads :
       LET f == call[c]
           exhausted == f.last_err = Err("AllVariantsFailed", LoggedAttempt(f))
       IN
       (f.path = "new_func" /\ ~Blank(f.question) /\ f.retries >= 0) =>
          /\ f.pc = "calling" =>
                /\ TriedInOrder(f)
                /\ Len(f.log) < Len(AllAccepted)
                /\ NextCall(f).name = AllAccepted[Len(f.log) + 1]
          /\ ( /\ f.pc \in {"sleeping", "loop", "raised"}
               /\ TriedInOrder(f) /\ Len(f.log) = Len(AllAccepted) ) => exhausted
          /\ (f.pc \in {"sleeping", "loop", "raised"} /\ exhausted) =>
                /\ TriedInOrder(f) /\ Len(f.log) = Len(AllAccepted)
                /\ f.pc = "sleeping" =>
                      /\ f.attempt < f.retries
                      /\ Len(f.sleeps) = f.attempt + 1
                      /\ f.sleeps[f.attempt + 1] = f.backoff * Pow2(f.attempt)
                /\ f.pc = "loop" => f.attempt <= f.retries /\ Len(f.sleeps) = f.attempt
                /\ f.pc = "raised" =>
                      /\ f.attempt = f.retries /\ f.cause = f.last_err
                      /\ f.error = "GenerationFailed"

C21_Witness ==
    \E c \in threads :
       LET f == call[c] IN
       /\ f.path = "new_func" /\ f.pc = "calling" /\ f.attempt = 1
       /\ f.last_err = Err("AllVariantsFailed", 0) /\ f.ncalls = 24
       /\ f.sleeps = << f.backoff >>
       /\ f.log = <<>> /\ f.phase = "base" /\ NextCall(f).name = <<"messages">>

\* the most provider calls one attempt can make: 4 base and 4 x 5 augmented
MaxCallsPerAttempt == 24

\* a bound on the steps the invocation has left, that every step lowers
Rank(f) ==
    LET left == (f.retries - f.attempt) * (MaxCallsPerAttempt + 8) IN
    CASE f.pc = "entered" -> (f.retries + 2) * (MaxCallsPerAttempt + 8)
      [] f.pc = "loop" -> left + MaxCallsPerAttempt + 2
      [] f.pc = "calling" -> left + MaxCallsPerAttempt + 1 - Len(f.log)
      [] f.pc = "sleeping" -> left
      [] OTHER -> 0

Running(f) == f.pc \in {"entered", "loop", "calling", "sleeping"}

\* the running invocation of caller c can go on: the entry check, the start of
\* an attempt and the end of the sleep can be taken, and a pending provider
\* call can end
CanGoOn(c) ==
    /\ call[c].pc = "entered" => ENABLED ask_gemini_sync(c)
    /\ call[c].pc = "loop" => ENABLED Attempt(c)
    /\ call[c].pc = "calling" => ENABLED ProviderRaises(c)
    /\ call[c].pc = "sleeping" => ENABLED Wake(c)

\* C22: provided each provider call returns or raises (and each sleep ends),
\* every invocation of ask_gemini_sync ends, by returning an answer or by
\* raising: a running invocation can always take its next step and every step
\* lowers a non-negative bound; it makes at most retries + 1 attempts and at
\* most 24 provider calls in an attempt; and for retries >= 0 the line after the
\* loop, marked unreachable, is not reached.
C22_Terminates ==
    /\ [][ \A c \in threads :
             (Running(call[c]) /\ call'[c] # call[c]) =>
                Rank(call'[c]) < Rank(call[c]) ]_vars
    /\ [](\A c \in threads :
             LET f == call[c] IN
             /\ Rank(f) >= 0
             /\ Running(f) => CanGoOn(c)
             /\ f.pc \in {"returned", "raised"} =>
                   f.error \in {"none", "GenerationFailed", "Unreachable", "ImportError"}
             /\ (f.pc # "idle" /\ f.retries >= 0) =>
                   /\ f.attempt + 1 <= f.retries + 1
                   /\ Len(f.log) <= MaxCallsPerAttempt
                   /\ f.ncalls <= MaxCallsPerAttempt * (f.attempt + 1)
                   /\ f.error # "Unreachable")

C22_Witness ==
    \E c \in threads :
       LET f == call[c] IN
       /\ f.pc = "raised" /\ f.error = "GenerationFailed"
       /\ f.retries = 1 /\ f.attempt = 1
       /\ Len(f.log) = MaxCallsPerAttempt /\ f.ncalls = 2 * MaxCallsPerAttempt

\* C23: in the web client's session, whenever last_answer is non-empty the
\* history is non-empty and its first entry's answer is last_answer; a run that
\* received an answer puts exactly one entry, for the trimmed question, at the
\* front of history and sets last_answer to its answer; a run whose ask failed
\* (blank question, error status, unreadable body, request exception) leaves
\* history and last_answer as they were; clear-history empties history and
\* resets last_answer in the same run; and nothing else changes either of them.
C23_SessionConsistent ==
    /\ [](Truthy(last_answer) =>
             history # <<>> /\ Str(history[1].answer) = last_answer)
    /\ [][ /\ notice' = "Answer received" =>
                 /\ Len(history') = Len(history) + 1
                 /\ Tail(history') = history
                 /\ history'[1].question = strip(q_input') /\ history'[1].question # <<>>
                 /\ last_answer' = Str(history'[1].answer)
           /\ notice' \in {"Please type a question.", "Backend error",
                            "Request failed", "exception", "none"} =>
                 UNCHANGED <<history, last_answer>>
           /\ notice' = "History cleared" =>
                 history' = <<>> /\ last_answer' = NoneText
           /\ (history' # history \/ last_answer' # last_answer) =>
                 notice' \in {"Answer received", "History cleared"} ]_vars

C23_Witness ==
    /\ notice = "Backend error"
    /\ Len(history) = 2 /\ last_answer = Str(<<"b">>)
    /\ history[1].question = <<"h">> /\ history[1].answer = <<"b">>
    /\ history[2].question = <<"P">> /\ history[2].answer = <<>>
    /\ q_input = <<"R">>

====
